---------------------------- MODULE Spec2Model ----------------------------
(***************************************************************************)
(* Model of the parquet-viewer main window (src/src/main_window.py), its   *)
(* background loader (src/src/workers.py), the pagination proxy            *)
(* (src/src/pandas_model.py) and the schema utilities (src/src/schema.py). *)
(*                                                                         *)
(* Strings on which the code works character by character (dictionary     *)
(* keys that are normalised, dtype names that are lower-cased and prefix   *)
(* matched, cell renderings that are searched) are tuples of one-character *)
(* strings; strings the code only compares for equality are TLA+ strings.  *)
(***************************************************************************)
EXTENDS Integers, Sequences, FiniteSets, TLC

----------------------------------------------------------------------------
(* Python string helpers                                                   *)

UpperChars == <<"A","B","C","D","E","F","G","H","I","J","K","L","M",
                "N","O","P","Q","R","S","T","U","V","W","X","Y","Z">>

LowerChars == <<"a","b","c","d","e","f","g","h","i","j","k","l","m",
                "n","o","p","q","r","s","t","u","v","w","x","y","z">>

\* str.lower() on one character
LowerChar(c) ==
    IF \E i \in 1..Len(UpperChars) : UpperChars[i] = c
    THEN LowerChars[CHOOSE i \in 1..Len(UpperChars) : UpperChars[i] = c]
    ELSE c

\* str.lower()
str_lower(s) == [i \in 1..Len(s) |-> LowerChar(s[i])]

\* str.replace(old, new) for one-character old and new
str_replace(s, old, new) == [i \in 1..Len(s) |-> IF s[i] = old THEN new ELSE s[i]]

\* str.startswith(prefix)
str_startswith(s, prefix) ==
    /\ Len(prefix) <= Len(s)
    /\ SubSeq(s, 1, Len(prefix)) = prefix

\* `needle in haystack` for strings
str_contains(haystack, needle) ==
    \E i \in 0..(Len(haystack) - Len(needle)) :
        SubSeq(haystack, i + 1, i + Len(needle)) = needle

----------------------------------------------------------------------------
(* src/src/schema.py                                                       *)

\* _SPARK_TYPE_MAP: the table rows, <<dtype name, Spark type>>
SPARK_TYPE_MAP ==
    << << <<"i","n","t","6","4">>, "integer" >>,
       << <<"i","n","t","3","2">>, "integer" >>,
       << <<"i","n","t","1","6">>, "integer" >>,
       << <<"i","n","t","8">>, "integer" >>,
       << <<"u","i","n","t","8">>, "integer" >>,
       << <<"u","i","n","t","1","6">>, "integer" >>,
       << <<"u","i","n","t","3","2">>, "integer" >>,
       << <<"u","i","n","t","6","4">>, "integer" >>,
       << <<"i","n","t","e","g","e","r">>, "integer" >>,
       << <<"i","n","t">>, "integer" >>,
       << <<"f","l","o","a","t","6","4">>, "double" >>,
       << <<"f","l","o","a","t","3","2">>, "double" >>,
       << <<"f","l","o","a","t","1","6">>, "double" >>,
       << <<"d","o","u","b","l","e">>, "double" >>,
       << <<"o","b","j","e","c","t">>, "string" >>,
       << <<"s","t","r","i","n","g">>, "string" >>,
       << <<"b","o","o","l">>, "boolean" >>,
       << <<"b","o","o","l","e","a","n">>, "boolean" >>,
       << <<"d","a","t","e","t","i","m","e","6","4","[","n","s","]">>, "timestamp" >>,
       << <<"d","a","t","e","t","i","m","e","6","4">>, "timestamp" >>,
       << <<"t","i","m","e","d","e","l","t","a","6","4","[","n","s","]">>, "string" >>,
       << <<"c","a","t","e","g","o","r","y">>, "string" >> >>

\* get_spark_type without its lower()
get_spark_type_case_sensitive(dtype_str) ==
    LET hits == {i \in 1..Len(SPARK_TYPE_MAP) : SPARK_TYPE_MAP[i][1] = dtype_str}
    IN  IF hits # {}
        THEN SPARK_TYPE_MAP[CHOOSE i \in hits : TRUE][2]
        ELSE IF \/ str_startswith(dtype_str, <<"i","n","t">>)
                \/ str_startswith(dtype_str, <<"u","i","n","t">>)
        THEN "integer"
        ELSE IF str_startswith(dtype_str, <<"f","l","o","a","t">>)
        THEN "double"
        ELSE IF str_startswith(dtype_str, <<"d","a","t","e","t","i","m","e">>)
        THEN "timestamp"
        ELSE "string"

\* get_spark_type(dtype_str)
get_spark_type(dtype_str) ==
    LET dtype_lower == str_lower(dtype_str)
        hits == {i \in 1..Len(SPARK_TYPE_MAP) : SPARK_TYPE_MAP[i][1] = dtype_lower}
    IN  IF hits # {}
        THEN SPARK_TYPE_MAP[CHOOSE i \in hits : TRUE][2]
        ELSE IF \/ str_startswith(dtype_lower, <<"i","n","t">>)
                \/ str_startswith(dtype_lower, <<"u","i","n","t">>)
        THEN "integer"
        ELSE IF str_startswith(dtype_lower, <<"f","l","o","a","t">>)
        THEN "double"
        ELSE IF str_startswith(dtype_lower, <<"d","a","t","e","t","i","m","e">>)
        THEN "timestamp"
        ELSE "string"

\* the three keys of the row dictionaries built by get_schema_df
KeyColumnName == <<"C","o","l","u","m","n"," ","N","a","m","e">>
KeyPandasType == <<"P","a","n","d","a","s"," ","T","y","p","e">>
KeySparkType  == <<"S","p","a","r","k"," ","T","y","p","e">>

\* get_schema_df(dataframe): a DataFrame with one row per column of
\* `dataframe`; dataframe.columns is a sequence of [name, dtype] records.
\* pd.DataFrame([]) has no columns at all.
get_schema_df(columns) ==
    [ columns |-> IF Len(columns) = 0 THEN <<>>
                  ELSE <<KeyColumnName, KeyPandasType, KeySparkType>>,
      rows    |-> [i \in 1..Len(columns) |->
                      << columns[i].name,
                         columns[i].dtype,
                         get_spark_type(columns[i].dtype) >>] ]

\* the normalisation that lower-cases and keeps the blanks
normalize_key_lower_only(c) == str_lower(c)

\* the normalisation of one column label in schema_to_json_dict
normalize_key(c) == str_replace(str_lower(c), " ", "_")

\* DataFrame.to_dict(orient='records')
to_dict_records(df) ==
    [i \in 1..Len(df.rows) |->
        [k \in {df.columns[j] : j \in 1..Len(df.columns)} |->
            df.rows[i][CHOOSE j \in 1..Len(df.columns) : df.columns[j] = k]]]

\* schema_to_json_dict(df_schema, file_name, file_ext); `now` is the
\* formatted datetime.now()
schema_to_json_dict(df_schema, file_name, file_ext, now) ==
    LET df_copy == [ columns |-> [j \in 1..Len(df_schema.columns) |->
                                     normalize_key(df_schema.columns[j])],
                     rows    |-> df_schema.rows ]
    IN  [ schema        |-> to_dict_records(df_copy),
          total_columns |-> Len(df_copy.rows),
          created_at    |-> now,
          data_file     |-> <<file_name, ".", file_ext>> ]

\* the keys compare_schemas reads
column_name == <<"c","o","l","u","m","n","_","n","a","m","e">>
spark_type  == <<"s","p","a","r","k","_","t","y","p","e">>

\* the key of an entry that compare_schemas does not read
pandas_type == <<"p","a","n","d","a","s","_","t","y","p","e">>

\* [f(x) for x in seq]
MapSeq(seq, f(_)) == [i \in 1..Len(seq) |-> f(seq[i])]

\* the dictionary built from the pandas types instead of the Spark types
types_dict_of_pandas_types(schema) ==
    [n \in {schema[i][column_name] : i \in 1..Len(schema)} |->
        LET last == CHOOSE i \in 1..Len(schema) :
                       /\ schema[i][column_name] = n
                       /\ \A j \in (i+1)..Len(schema) : schema[j][column_name] # n
        IN  schema[last][pandas_type]]

\* {c['column_name']: c['spark_type'] for c in schema}: a later entry of the
\* same name overwrites an earlier one
types_dict(schema) ==
    [n \in {schema[i][column_name] : i \in 1..Len(schema)} |->
        LET last == CHOOSE i \in 1..Len(schema) :
                       /\ schema[i][column_name] = n
                       /\ \A j \in (i+1)..Len(schema) : schema[j][column_name] # n
        IN  schema[last][spark_type]]

\* has_differences that forgets only_in_second
has_differences_without_second(r) ==
    \/ Len(r.only_in_first) > 0
    \/ Len(r.type_mismatches) > 0
    \/ Len(r.order_mismatches) > 0

\* SchemaComparisonResult.has_differences
has_differences(r) ==
    \/ Len(r.only_in_first) > 0
    \/ Len(r.only_in_second) > 0
    \/ Len(r.type_mismatches) > 0
    \/ Len(r.order_mismatches) > 0

\* SchemaComparisonResult.total_differences
total_differences(r) ==
    Len(r.only_in_first) + Len(r.only_in_second)
    + Len(r.type_mismatches) + Len(r.order_mismatches)

\* pos2 built with enumerate(names2, 1)
pos2_dict_one_based(names2, schema1_types) ==
    [n \in {names2[i] : i \in {j \in 1..Len(names2) : names2[j] \in DOMAIN schema1_types}} |->
        CHOOSE i \in 1..Len(names2) :
            /\ names2[i] = n
            /\ \A j \in (i+1)..Len(names2) : names2[j] # n]

\* pos2 = {n: idx for idx, n in enumerate(names2) if n in schema1_types}:
\* idx runs over ALL of names2 (0-based), the filter only drops entries
pos2_dict(names2, schema1_types) ==
    [n \in {names2[i] : i \in {j \in 1..Len(names2) : names2[j] \in DOMAIN schema1_types}} |->
        LET last == CHOOSE i \in 1..Len(names2) :
                       /\ names2[i] = n
                       /\ \A j \in (i+1)..Len(names2) : names2[j] # n
        IN  last - 1]

\* the subscripts of compare_schemas find their keys: json['schema'],
\* c['column_name'] and c['spark_type'] raise KeyError otherwise
has_keys(json) ==
    /\ "schema" \in DOMAIN json
    /\ \A i \in 1..Len(json.schema) :
          {column_name, spark_type} \subseteq DOMAIN json.schema[i]

\* compare_schemas(json1, json2) when no subscript raises.  A formatted
\* mismatch line is modelled by the values it is formatted from.
compare_lists(json1, json2) ==
    LET schema1_types == types_dict(json1.schema)
        schema2_types == types_dict(json2.schema)
        Name(c) == c[column_name]
        names1 == MapSeq(json1.schema, Name)
        names2 == MapSeq(json2.schema, Name)
        NotIn2(n) == n \notin DOMAIN schema2_types
        NotIn1(n) == n \notin DOMAIN schema1_types
        In2(n) == n \in DOMAIN schema2_types
        TypeDiffers(n) == /\ n \in DOMAIN schema2_types
                          /\ schema1_types[n] # schema2_types[n]
        TypeLine(n) == [name |-> n, type1 |-> schema1_types[n],
                        type2 |-> schema2_types[n]]
        common == SelectSeq(names1, In2)
        pos2 == pos2_dict(names2, schema1_types)
        Moved(i) == /\ common[i] \in DOMAIN pos2
                    /\ (i - 1) # pos2[common[i]]
        OrderLine(i) == [name |-> common[i], position1 |-> (i - 1) + 1,
                         position2 |-> pos2[common[i]] + 1]
        idxs == [i \in 1..Len(common) |-> i]
    IN  [ raised           |-> FALSE,
          only_in_first    |-> SelectSeq(names1, NotIn2),
          only_in_second   |-> SelectSeq(names2, NotIn1),
          type_mismatches  |-> MapSeq(SelectSeq(names1, TypeDiffers), TypeLine),
          order_mismatches |-> MapSeq(SelectSeq(idxs, Moved), OrderLine) ]

\* compare_schemas with its two arguments mixed up
compare_schemas_swapped(json1, json2) ==
    IF has_keys(json1) /\ has_keys(json2)
    THEN compare_lists(json2, json1)
    ELSE [raised |-> TRUE]

\* compare_schemas(json1, json2): the result, or the KeyError raised
compare_schemas(json1, json2) ==
    IF has_keys(json1) /\ has_keys(json2)
    THEN compare_lists(json1, json2)
    ELSE [raised |-> TRUE]

----------------------------------------------------------------------------
(* Values shared by the main window and the loader                         *)

\* Python's None where the other values are strings
None == "None"

\* header=None of pandas.read_csv (the other header value is the row index 0)
HeaderNone == -1

\* dict.get(key, default)
dict_get(d, key, default) == IF key \in DOMAIN d THEN d[key] ELSE default

\* {} of Python
EmptyDict == [k \in {} |-> None]

\* pd.DataFrame(): no columns, no rows.  `gen` is the identity of the
\* DataFrame object: the number of the worker that built it, 0 for the
\* frames the window builds itself.
EmptyDataFrame == [gen |-> 0, columns |-> <<>>, rows |-> <<>>]

\* DataFrame.empty: some axis has length 0
df_empty(df) == Len(df.columns) = 0 \/ Len(df.rows) = 0

----------------------------------------------------------------------------
(* The files on disk that the modelled runs open                           *)

\* a.parquet: a readable parquet file, 2 columns, 3 rows
FileAParquet ==
    [ kind    |-> "parquet",
      columns |-> << [name |-> <<"i","d">>, dtype |-> <<"i","n","t","6","4">>],
                     [name |-> <<"n","a","m","e">>,
                      dtype |-> <<"o","b","j","e","c","t">>] >>,
      rows    |-> << << <<"1">>, <<"A","n","n">> >>,
                     << <<"2">>, <<"b","o","b">> >>,
                     << <<"3">>, <<"A","B">> >> >> ]

\* b.csv: a delimited text file: a header line, a good line, a line with
\* one field too many, a good line
FileBCsv ==
    [ kind  |-> "text",
      lines |-> << << <<"x">>, <<"y">> >>,
                   << <<"7">>, <<"p","q">> >>,
                   << <<"8">>, <<"q">>, <<"9">> >>,
                   << <<"9">>, <<"a">> >> >> ]

\* e.csv: a delimited text file holding only its header line
FileECsv ==
    [ kind  |-> "text",
      lines |-> << << <<"x">>, <<"y">> >> >> ]

\* s.csv: a delimited text file: a header line, a line with one field too
\* few, a line with one field too many, a good line
FileSCsv ==
    [ kind  |-> "text",
      lines |-> << << <<"x">>, <<"y">> >>,
                   << <<"1">> >>,
                   << <<"2">>, <<"b">>, <<"c">> >>,
                   << <<"3">>, <<"d">> >> >> ]

\* c.parquet: not a parquet file (no PAR1 magic), and not valid text in
\* any offered encoding either
FileCParquet == [ kind |-> "garbage" ]

\* m.txt: does not exist
FileMTxt == [ kind |-> "missing" ]

Paths == {"a.parquet", "b.csv", "e.csv", "s.csv", "c.parquet", "m.txt"}

FileSystem ==
    [p \in Paths |->
        CASE p = "a.parquet" -> FileAParquet
          [] p = "b.csv"     -> FileBCsv
          [] p = "e.csv"     -> FileECsv
          [] p = "s.csv"     -> FileSCsv
          [] p = "c.parquet" -> FileCParquet
          [] OTHER           -> FileMTxt]

\* other files on disk, which the modelled runs only list in the history
HistoryPaths ==
    << "f01", "f02", "f03", "f04", "f05", "f06",
       "f07", "f08", "f09", "f10", "f11", "f12" >>

\* os.path.exists(path)
path_exists(path) ==
    \/ path \in Paths /\ FileSystem[path].kind # "missing"
    \/ \E i \in 1..Len(HistoryPaths) : HistoryPaths[i] = path

\* _parse_file_info(file_path) on the paths above: (name, extension)
parse_file_info(file_path) ==
    CASE file_path = "a.parquet" -> <<"a", "parquet">>
      [] file_path = "b.csv"     -> <<"b", "csv">>
      [] file_path = "e.csv"     -> <<"e", "csv">>
      [] file_path = "s.csv"     -> <<"s", "csv">>
      [] file_path = "c.parquet" -> <<"c", "parquet">>
      [] file_path = "m.txt"     -> <<"m", "txt">>
      [] OTHER                   -> <<file_path, "">>

----------------------------------------------------------------------------
(* pandas readers, as far as DataLoaderWorker.run uses them                *)

Digits == {"0","1","2","3","4","5","6","7","8","9"}

\* the dtype pandas infers for a text column whose cells are `cells`
\* (the modelled files hold only digit strings and words)
infer_dtype(cells) ==
    IF /\ Len(cells) > 0
       /\ \A i \in 1..Len(cells) :
             /\ Len(cells[i]) > 0
             /\ \A j \in 1..Len(cells[i]) : cells[i][j] \in Digits
    THEN <<"i","n","t","6","4">>
    ELSE <<"o","b","j","e","c","t">>

\* str(value) of a missing cell
NaNText == <<"n","a","n">>

\* one parsed data line, padded with NaN to `width` fields
pad_line(line, width) ==
    [j \in 1..width |-> IF j <= Len(line) THEN line[j] ELSE NaNText]

\* pd.read_parquet(path, engine='pyarrow'): a frame or an exception
read_parquet(gen, path) ==
    LET f == FileSystem[path]
    IN  IF f.kind = "parquet"
        THEN [ok |-> TRUE,
              df |-> [gen |-> gen, columns |-> f.columns, rows |-> f.rows]]
        ELSE [ok |-> FALSE, message |-> f.kind]

\* str(i) for the small non-negative integers the model formats
str_int(i) == << <<"0">>, <<"1">>, <<"2">>, <<"3">>, <<"4">>, <<"5">> >>[i + 1]

\* the label pandas gives column i (0-based) when header=None: the integer
\* i, modelled by its rendering
int_label(i) == str_int(i)

\* pd.read_csv(path, compression=..., header=..., on_bad_lines='skip'): a
\* frame or an exception.  None of the paths ends in a compression suffix,
\* so compression='infer' reads the bytes as they are.  A line with more
\* fields than the first line is skipped, a line with fewer is padded.
\* The text files are written with the separator, encoding and quoting
\* that the request names, and their types are inferred.
read_csv(gen, path, compression, header) ==
    LET f == FileSystem[path]
    IN  IF f.kind # "text" THEN [ok |-> FALSE, message |-> f.kind]
        ELSE IF compression = "gzip" THEN [ok |-> FALSE, message |-> "BadGzipFile"]
        ELSE IF Len(f.lines) = 0 THEN [ok |-> FALSE, message |-> "EmptyDataError"]
        ELSE
          LET width == Len(f.lines[1])
              data  == IF header = HeaderNone THEN f.lines ELSE Tail(f.lines)
              Good(line) == Len(line) <= width
              kept  == SelectSeq(data, Good)
              rows  == [i \in 1..Len(kept) |-> pad_line(kept[i], width)]
              Col(j) == [i \in 1..Len(rows) |-> rows[i][j]]
          IN  [ok |-> TRUE,
               df |-> [ gen |-> gen,
                        columns |-> [j \in 1..width |->
                            [ name  |-> IF header = HeaderNone
                                        THEN int_label(j - 1)
                                        ELSE f.lines[1][j],
                              dtype |-> infer_dtype(Col(j)) ]],
                        rows |-> rows ]]

----------------------------------------------------------------------------
(* src/src/workers.py                                                      *)

\* run whose unsupported-type branch lacks its return: the emit of the
\* unbound df raises, and the handler emits error a second time
run_without_return(gen, file_path, file_type, options) ==
    LET res == IF file_type = "parquet"
               THEN read_parquet(gen, file_path)
               ELSE read_csv(gen, file_path,
                             dict_get(options, "compression", "infer"),
                             dict_get(options, "header", 0))
    IN  IF file_type \notin {"parquet", "csv", "csv_gzip", "txt"}
        THEN << [signal |-> "error", payload |-> "Unsupported file type"],
                [signal |-> "error", payload |-> "UnboundLocalError"] >>
        ELSE IF res.ok
        THEN << [signal |-> "finished", payload |-> res.df] >>
        ELSE << [signal |-> "error", payload |-> res.message] >>

\* DataLoaderWorker.run for the worker numbered `gen`: the sequence of
\* signals it emits, in order
run(gen, file_path, file_type, options) ==
    LET res == IF file_type = "parquet"
               THEN read_parquet(gen, file_path)
               ELSE read_csv(gen, file_path,
                             dict_get(options, "compression", "infer"),
                             dict_get(options, "header", 0))
    IN  IF file_type \notin {"parquet", "csv", "csv_gzip", "txt"}
        THEN << [signal |-> "error", payload |-> "Unsupported file type"] >>
        ELSE IF res.ok
        THEN << [signal |-> "finished", payload |-> res.df] >>
        ELSE << [signal |-> "error", payload |-> res.message] >>

----------------------------------------------------------------------------
(* src/src/pandas_model.py and the search proxy set up in _setup_table     *)

Max(a, b) == IF a >= b THEN a ELSE b
Min(a, b) == IF a <= b THEN a ELSE b

\* the search proxy left at Qt's default, case-sensitive matching
search_accepts_row_case_sensitive(row, filter) ==
    \/ Len(filter) = 0
    \/ \E j \in 1..Len(row) : str_contains(row[j], filter)

\* QSortFilterProxyModel.filterAcceptsRow of the search proxy: fixed string,
\* case-insensitive, filterKeyColumn = -1; `row` holds the DisplayRole
\* strings of one source row
search_accepts_row(row, filter) ==
    \/ Len(filter) = 0
    \/ \E j \in 1..Len(row) : str_contains(str_lower(row[j]), str_lower(filter))

\* the source rows (0-based) the search proxy exposes, in source order
filtered_rows(df, filter) ==
    LET Accepted(i) == search_accepts_row(df.rows[i + 1], filter)
    IN  SelectSeq([i \in 1..Len(df.rows) |-> i - 1], Accepted)

\* PaginationProxyModel.total_source_rows
total_source_rows(df, filter) == Len(filtered_rows(df, filter))

\* page_count that rounds down
page_count_floor(total, size) ==
    IF total = 0 THEN 0 ELSE total \div size

\* PaginationProxyModel.page_count
page_count(total, size) ==
    IF total = 0 THEN 0 ELSE (total + size - 1) \div size

\* PaginationProxyModel.showing_from
showing_from(total, pg, size) == IF total = 0 THEN 0 ELSE pg * size + 1

\* showing_to without the cap at the total
showing_to_uncapped(total, pg, size) == (pg + 1) * size

\* PaginationProxyModel.showing_to
showing_to(total, pg, size) == Min((pg + 1) * size, total)

\* set_page_size without the floor of 1
set_page_size_unfloored(size) == [page_size |-> size, page |-> 0]

\* PaginationProxyModel.set_page_size: the new (_page_size, _page)
set_page_size(size) == [page_size |-> Max(1, size), page |-> 0]

\* go_to_page that only caps the page from above
go_to_page_uncapped_below(pg, total, size) ==
    LET max_page == Max(0, page_count(total, size) - 1)
    IN  Min(pg, max_page)

\* PaginationProxyModel.go_to_page: the new _page
go_to_page(pg, total, size) ==
    LET max_page == Max(0, page_count(total, size) - 1)
    IN  Max(0, Min(pg, max_page))

\* PaginationProxyModel.first_page: the new _page
first_page(total, size) == go_to_page(0, total, size)

\* next_page with the bound of its test off by one
next_page_off_by_one(pg, total, size) ==
    IF pg < page_count(total, size)
    THEN [page |-> pg + 1, moved |-> TRUE]
    ELSE [page |-> pg, moved |-> FALSE]

\* PaginationProxyModel.next_page: the new _page and the returned flag
next_page(pg, total, size) ==
    IF pg < page_count(total, size) - 1
    THEN [page |-> pg + 1, moved |-> TRUE]
    ELSE [page |-> pg, moved |-> FALSE]

\* previous_page without its test
previous_page_unguarded(pg) == [page |-> pg - 1, moved |-> TRUE]

\* PaginationProxyModel.previous_page: the new _page and the returned flag
previous_page(pg) ==
    IF pg > 0
    THEN [page |-> pg - 1, moved |-> TRUE]
    ELSE [page |-> pg, moved |-> FALSE]

\* PaginationProxyModel.filterAcceptsRow; source_row is a 0-based row of
\* the search proxy
filterAcceptsRow(source_row, pg, size) ==
    LET start == pg * size
        end   == start + size
    IN  start <= source_row /\ source_row < end

\* the source rows of the snapshot that the table view shows
page_rows(df, filter, pg, size) ==
    LET f == filtered_rows(df, filter)
        OnPage(i) == filterAcceptsRow(i - 1, pg, size)
        pos == SelectSeq([i \in 1..Len(f) |-> i], OnPage)
    IN  [i \in 1..Len(pos) |-> f[pos[i]]]

\* the characters of the modelled cells in the order of their code units
CodeOrder ==
    <<"0","1","2","3","4","5","6","7","8","9">> \o UpperChars \o LowerChars

CharCode(c) == CHOOSE i \in 1..Len(CodeOrder) : CodeOrder[i] = c

\* QString::compare(a, b) < 0, the case-sensitive comparison that
\* QSortFilterProxyModel.lessThan applies to two DisplayRole strings
str_less(a, b) ==
    \E k \in 1..(Min(Len(a), Len(b)) + 1) :
        /\ SubSeq(a, 1, k - 1) = SubSeq(b, 1, k - 1)
        /\ \/ k > Len(a) /\ k <= Len(b)
           \/ /\ k <= Len(a)
              /\ k <= Len(b)
              /\ CharCode(a[k]) < CharCode(b[k])

\* QSortFilterProxyModel.sort(column, order) of the page proxy: a stable
\* sort of the rows it exposes by the strings of one column; `rows` are
\* 0-based rows of the frame in the order of the search proxy
sort_rows(df, rows, sort) ==
    LET Key(i) == df.rows[rows[i] + 1][sort.column + 1]
        Less(i, j) == IF sort.order = "asc"
                      THEN str_less(Key(i), Key(j))
                      ELSE str_less(Key(j), Key(i))
        Before(i, j) == Less(i, j) \/ (~Less(j, i) /\ i < j)
        Rank(i) == Cardinality({j \in 1..Len(rows) : Before(j, i)}) + 1
    IN  IF sort.column < 0 \/ sort.column >= Len(df.columns) THEN rows
        ELSE [n \in 1..Len(rows) |->
                 rows[CHOOSE i \in 1..Len(rows) : Rank(i) = n]]

\* the rows of the frame in the order the table view shows them
table_rows(df, filter, pg, size, sort) ==
    sort_rows(df, page_rows(df, filter, pg, size), sort)

\* QHeaderView on a click on a section: the clicked section with the order
\* flipped when it is the sorted one already, ascending otherwise
flip_sort_indicator(sort, section) ==
    IF sort.column = section
    THEN [column |-> section,
          order |-> IF sort.order = "asc" THEN "desc" ELSE "asc"]
    ELSE [column |-> section, order |-> "asc"]

----------------------------------------------------------------------------
(* src/src/config.py: the recent-files history                             *)

MAX_RECENT_FILES == 10

\* files[:n]
Take(files, n) == SubSeq(files, 1, Min(n, Len(files)))

\* load_recent_files(): the stored paths that still exist on disk
load_recent_files(stored) == SelectSeq(stored, path_exists)

\* save_recent_files(files): the new content of the history file
save_recent_files(files) == Take(files, MAX_RECENT_FILES)

\* list.remove(x): the list without the first occurrence of x
list_remove(l, x) ==
    LET first == CHOOSE i \in 1..Len(l) :
                    l[i] = x /\ \A j \in 1..(i - 1) : l[j] # x
    IN  SubSeq(l, 1, first - 1) \o SubSeq(l, first + 1, Len(l))

\* add_recent_file that skips the removal of the path it adds
add_recent_file_keeps_old_entry(stored, file_path) ==
    LET files   == load_recent_files(stored)
        files2  == Take(<<file_path>> \o files, MAX_RECENT_FILES)
    IN  save_recent_files(files2)

\* add_recent_file(file_path): the new content of the history file
add_recent_file(stored, file_path) ==
    LET files   == load_recent_files(stored)
        Is(f)   == f = file_path
        removed == IF Len(SelectSeq(files, Is)) > 0
                   THEN list_remove(files, file_path)
                   ELSE files
        files2  == Take(<<file_path>> \o removed, MAX_RECENT_FILES)
    IN  save_recent_files(files2)

----------------------------------------------------------------------------
(* Bounds of the model                                                     *)

\* number of loads requested in one run
MaxLoads == 2

\* largest value of the page-size spin box
MaxPageSize == 2

\* number of columns of a frame whose schema is extracted
MaxCols == 2

\* what the user types into the search box
SearchTerms == { <<>>, <<"B">> }

\* names and dtypes of the columns of a frame whose schema is extracted
ColumnNames == { <<"i","d">>, <<"n","a","m","e">>, <<"a","g","e">> }

DTypes == { <<"i","n","t","6","4">>, <<"I","n","t","3","2">>,
            <<"o","b","j","e","c","t">> }

\* the file types and option dictionaries a worker is constructed with
FileTypes == {"parquet", "csv", "csv_gzip", "txt", "xlsx"}

WorkerOptions ==
    { [k \in {} |-> None],
      [header |-> 0, compression |-> "infer"],
      [header |-> HeaderNone, compression |-> "infer"],
      [header |-> 0, compression |-> "gzip"] }

\* what the user picks in the parquet file dialog
ParquetChoices == {"a.parquet", "c.parquet"}

\* what the user picks in the CSV / text file dialogs: (path, file_type)
TextChoices == { <<"b.csv", "csv">>, <<"e.csv", "csv">>, <<"m.txt", "txt">> }

----------------------------------------------------------------------------
(* State                                                                   *)

VARIABLES
    model_df,       \* PandasModel._df of MainWindow._model
    search_text,    \* text of MainWindow._search_input
    filter_string,  \* filter string of MainWindow._search_proxy
    page,           \* PaginationProxyModel._page
    page_size,      \* PaginationProxyModel._page_size
    spin_limit,     \* value of MainWindow.spinLimit
    has_header,     \* MainWindow._has_header
    path_file,      \* MainWindow._path_file
    file_info,      \* (MainWindow._file_name, MainWindow._file_ext)
    load_settings,  \* MainWindow._current_load_settings
    progress,       \* range of MainWindow.progressBar: "busy" is (0, 0)
    worker,         \* MainWindow._worker: a worker number, 0 for None
    workers,        \* every DataLoaderWorker created so far, by number
    queue,          \* signal emissions queued for the main thread
    main_pc,        \* "idle", or "wait" inside _load_file's _worker.wait()
    pending,        \* arguments of the _load_file call that is waiting
    recent_files,   \* content of the recent-files history file
    frames,         \* the two frames whose schemas are extracted
    jsons,          \* the two serialized schemas
    results,        \* results of compare_schemas
    schema_pc,      \* progress of the schema run
    report,         \* the two files and the dialog of _compare_json_schemas
    last_call,      \* the last PaginationProxyModel method called directly
    sort_key        \* sort column and order of MainWindow._page_proxy

winVars == << model_df, search_text, filter_string, page, page_size,
              spin_limit, has_header, path_file, file_info, load_settings,
              progress, recent_files >>

loadVars == << worker, workers, queue, main_pc, pending >>

schemaVars == << frames, jsons, results, schema_pc, report >>

vars == << winVars, loadVars, schemaVars, last_call, sort_key >>

\* MainWindow.__init__: the window right after construction; the spin box
\* starts at the value given by the layout file
InitWindow ==
    /\ model_df = EmptyDataFrame
    /\ search_text = <<>>
    /\ filter_string = <<>>
    /\ page = 0
    /\ spin_limit \in 0..MaxPageSize
    /\ page_size = set_page_size(spin_limit).page_size
    /\ has_header = TRUE
    /\ path_file = None
    /\ file_info = <<None, None>>
    /\ load_settings = EmptyDict
    /\ progress = "normal"
    /\ worker = 0
    /\ workers = <<>>
    /\ queue = <<>>
    /\ main_pc = "idle"
    /\ pending = EmptyDict
    /\ recent_files = <<>>

\* _compare_json_schemas has not run
NoReport == [json1 |-> EmptyDict, json2 |-> EmptyDict, outcome |-> None]

InitSchemaOff ==
    /\ frames = <<>>
    /\ jsons = <<>>
    /\ results = <<>>
    /\ schema_pc = "off"
    /\ report = NoReport

\* QSortFilterProxyModel.sort(-1): the rows in the order of the source
Unsorted == [column |-> 0 - 1, order |-> "asc"]

\* _table_view.setSortingEnabled(True) on the fresh view sorts the page
\* proxy by the header's initial sort indicator: section 0, descending
InitialSort == [column |-> 0, order |-> "desc"]

\* no method of the proxy has been called from outside the window
NoCall == [op |-> "none", arg |-> 0, ret |-> 0]

InitNoCall == last_call = NoCall

InitSort == sort_key = InitialSort

Init == InitWindow /\ InitSchemaOff /\ InitNoCall /\ InitSort

----------------------------------------------------------------------------
(* src/src/main_window.py: loading                                         *)

\* DataLoaderWorker(path, file_type, options, parent=self) followed by
\* start(): the workers after the new one is created and running
start_worker(ws, path, file_type, options) ==
    Append(ws, [ file_path |-> path, file_type |-> file_type,
                 options |-> options, running |-> TRUE, emitted |-> <<>> ])

\* _load_file that never waits for the previous worker
previous_running_ignored(w, ws) == FALSE

\* the test of _load_file before it waits: a previous worker exists and is
\* still running
previous_running(w, ws) == w # 0 /\ ws[w].running

\* MainWindow._load_file up to the end, or up to _worker.wait() when the
\* previous worker is still running
load_file(path, file_type, options) ==
    /\ load_settings' = [path |-> path, file_type |-> file_type,
                         options |-> options]
    /\ path_file' = path
    /\ file_info' = parse_file_info(path)
    /\ progress' = "busy"
    /\ IF previous_running(worker, workers)
       THEN /\ main_pc' = "wait"
            /\ pending' = [path |-> path, file_type |-> file_type,
                           options |-> options]
            /\ UNCHANGED << worker, workers >>
       ELSE /\ workers' = start_worker(workers, path, file_type, options)
            /\ worker' = Len(workers) + 1
            /\ UNCHANGED << main_pc, pending >>
    /\ UNCHANGED << queue, model_df, search_text, filter_string, page,
                    page_size, spin_limit, recent_files, schemaVars, last_call, sort_key >>

\* the control path is free to run a handler, and the run may still
\* request a load
CanRequest == main_pc = "idle" /\ Len(workers) < MaxLoads

\* MainWindow._load_file after _worker.wait() returned
LoadFileResume ==
    /\ main_pc = "wait"
    /\ ~workers[worker].running
    /\ workers' = start_worker(workers, pending.path, pending.file_type,
                               pending.options)
    /\ worker' = Len(workers) + 1
    /\ main_pc' = "idle"
    /\ pending' = EmptyDict
    /\ UNCHANGED << queue, winVars, schemaVars, last_call, sort_key >>

\* MainWindow._open_file_parquet with a file picked
OpenFileParquet(path) ==
    /\ CanRequest
    /\ has_header' = TRUE
    /\ load_file(path, "parquet", EmptyDict)

\* TextFileOptionsDialog.get_options for the header choice of the user
get_options(header_choice) ==
    [ header |-> IF header_choice THEN 0 ELSE HeaderNone,
      has_header |-> header_choice ]

\* MainWindow._open_text_with_options with the dialog accepted
OpenTextWithOptions(path, file_type, compression, header_choice) ==
    LET opts == get_options(header_choice)
    IN  /\ CanRequest
        /\ has_header' = opts.has_header
        /\ load_file(path, file_type,
                     [header |-> opts.header, compression |-> compression])

\* MainWindow._open_file_csv / _open_file_txt with a file picked
OpenFileText(path, file_type, header_choice) ==
    OpenTextWithOptions(path, file_type, "infer", header_choice)

\* MainWindow._open_recent_file for an entry of the recent-files menu
OpenRecentFile(file_path) ==
    LET ext == parse_file_info(file_path)[2]
    IN  /\ CanRequest
        /\ path_exists(file_path)
        /\ \/ /\ ext = "parquet"
              /\ has_header' = TRUE
              /\ load_file(file_path, "parquet", EmptyDict)
           \/ /\ ext = "csv"
              /\ UNCHANGED has_header
              /\ load_file(file_path, "csv", EmptyDict)
           \/ /\ ext = "txt"
              /\ UNCHANGED has_header
              /\ load_file(file_path, "txt", EmptyDict)

\* MainWindow._on_refresh with a file to refresh
OnRefresh ==
    /\ CanRequest
    /\ DOMAIN load_settings # {}
    /\ UNCHANGED has_header
    /\ load_file(load_settings.path, load_settings.file_type,
                 load_settings.options)

\* DataLoaderWorker.run of worker k, on its own thread
WorkerRun(k) ==
    /\ workers[k].running
    /\ LET w == workers[k]
           signals == run(k, w.file_path, w.file_type, w.options)
       IN  /\ queue' = queue \o [i \in 1..Len(signals) |->
                                    [ worker  |-> k,
                                      signal  |-> signals[i].signal,
                                      payload |-> signals[i].payload ]]
           /\ workers' = [workers EXCEPT
                             ![k].running = FALSE,
                             ![k].emitted = [i \in 1..Len(signals) |->
                                                signals[i].signal]]
    /\ UNCHANGED << worker, main_pc, pending, winVars, schemaVars, last_call, sort_key >>

----------------------------------------------------------------------------
(* src/src/main_window.py: completion handlers, paging, search, clear      *)

\* [f'col{i}' for i in range(1, n + 1)]
generic_headers(n) == [i \in 1..n |-> <<"c","o","l">> \o str_int(i)]

\* df.columns = [...]: the frame with its columns renamed
set_columns(df, names) ==
    [df EXCEPT !.columns = [j \in 1..Len(df.columns) |->
                               [df.columns[j] EXCEPT !.name = names[j]]]]

\* MainWindow._update_pagination_info: the new range of the progress bar
update_pagination_info(prog, total) ==
    IF total = 0 THEN prog ELSE "normal"

\* QLineEdit.clear() on _search_input: textChanged fires, and with it
\* _on_search_changed(''), only when the text was not empty already
search_cleared_filter(text, filter) == IF Len(text) # 0 THEN <<>> ELSE filter

\* MainWindow._on_data_loaded(df)
OnDataLoaded(df) ==
    LET df2 == IF ~has_header /\ ~df_empty(df)
               THEN set_columns(df, generic_headers(Len(df.columns)))
               ELSE df
        filter2 == search_cleared_filter(search_text, filter_string)
        total == total_source_rows(df2, filter2)
    IN  /\ model_df' = df2
        /\ search_text' = <<>>
        /\ filter_string' = filter2
        /\ page' = first_page(total, page_size)
        /\ progress' = update_pagination_info(progress, total)
        /\ sort_key' = Unsorted
        /\ has_header' = TRUE
        /\ recent_files' = IF path_file # None
                           THEN add_recent_file(recent_files, path_file)
                           ELSE recent_files
        /\ UNCHANGED << page_size, spin_limit, path_file, file_info,
                        load_settings >>

\* _on_load_error that also empties the table
OnLoadError_clears(message) ==
    /\ progress' = "normal"
    /\ model_df' = EmptyDataFrame
    /\ page' = 0
    /\ UNCHANGED << search_text, filter_string, page_size,
                    spin_limit, has_header, path_file, file_info,
                    load_settings, recent_files, sort_key >>

\* MainWindow._on_load_error(message)
OnLoadError(message) ==
    /\ progress' = "normal"
    /\ UNCHANGED << model_df, search_text, filter_string, page, page_size,
                    spin_limit, has_header, path_file, file_info,
                    load_settings, recent_files, sort_key >>

\* the main thread's event loop delivers the oldest queued emission to the
\* slot connected in _load_file
Deliver ==
    /\ main_pc = "idle"
    /\ Len(queue) > 0
    /\ IF Head(queue).signal = "finished"
       THEN OnDataLoaded(Head(queue).payload)
       ELSE OnLoadError(Head(queue).payload)
    /\ queue' = Tail(queue)
    /\ UNCHANGED << worker, workers, main_pc, pending, schemaVars, last_call >>

\* MainWindow._on_show
OnShow ==
    LET total == total_source_rows(model_df, filter_string)
    IN  /\ main_pc = "idle"
        /\ page' = first_page(total, page_size)
        /\ progress' = update_pagination_info(progress, total)
        /\ UNCHANGED << model_df, search_text, filter_string, page_size,
                        spin_limit, has_header, path_file, file_info,
                        load_settings, recent_files, loadVars, schemaVars, last_call, sort_key >>

\* MainWindow._on_page_previous
OnPagePrevious ==
    LET total == total_source_rows(model_df, filter_string)
    IN  /\ main_pc = "idle"
        /\ page' = previous_page(page).page
        /\ progress' = update_pagination_info(progress, total)
        /\ UNCHANGED << model_df, search_text, filter_string, page_size,
                        spin_limit, has_header, path_file, file_info,
                        load_settings, recent_files, loadVars, schemaVars, last_call, sort_key >>

\* MainWindow._on_page_next
OnPageNext ==
    LET total == total_source_rows(model_df, filter_string)
    IN  /\ main_pc = "idle"
        /\ page' = next_page(page, total, page_size).page
        /\ progress' = update_pagination_info(progress, total)
        /\ UNCHANGED << model_df, search_text, filter_string, page_size,
                        spin_limit, has_header, path_file, file_info,
                        load_settings, recent_files, loadVars, schemaVars, last_call, sort_key >>

\* MainWindow._on_page_size_changed(size), fired when the spin box changes
OnPageSizeChanged(size) ==
    LET total == total_source_rows(model_df, filter_string)
        new == set_page_size(size)
    IN  /\ main_pc = "idle"
        /\ size # spin_limit
        /\ spin_limit' = size
        /\ page_size' = new.page_size
        /\ page' = new.page
        /\ progress' = update_pagination_info(progress, total)
        /\ UNCHANGED << model_df, search_text, filter_string, has_header,
                        path_file, file_info, load_settings, recent_files,
                        loadVars, schemaVars, last_call, sort_key >>

\* _on_search_changed without its first_page()
OnSearchChanged_keeps_page(text) ==
    LET total == total_source_rows(model_df, text)
    IN  /\ main_pc = "idle"
        /\ text # search_text
        /\ search_text' = text
        /\ filter_string' = text
        /\ progress' = update_pagination_info(progress, total)
        /\ UNCHANGED << model_df, page, page_size, spin_limit, has_header,
                        path_file, file_info, load_settings, recent_files,
                        loadVars, schemaVars, last_call, sort_key >>

\* MainWindow._on_search_changed(text), fired when the user edits the box
OnSearchChanged(text) ==
    LET total == total_source_rows(model_df, text)
    IN  /\ main_pc = "idle"
        /\ text # search_text
        /\ search_text' = text
        /\ filter_string' = text
        /\ page' = first_page(total, page_size)
        /\ progress' = update_pagination_info(progress, total)
        /\ UNCHANGED << model_df, page_size, spin_limit, has_header,
                        path_file, file_info, load_settings, recent_files,
                        loadVars, schemaVars, last_call, sort_key >>

\* MainWindow._clear_data
ClearData ==
    LET filter2 == search_cleared_filter(search_text, filter_string)
        total == total_source_rows(EmptyDataFrame, filter2)
    IN  /\ main_pc = "idle"
        /\ model_df' = EmptyDataFrame
        /\ search_text' = <<>>
        /\ filter_string' = filter2
        /\ page' = first_page(total, page_size)
        /\ path_file' = None
        /\ file_info' = <<None, None>>
        /\ load_settings' = EmptyDict
        /\ UNCHANGED << page_size, spin_limit, has_header, progress,
                        recent_files, loadVars, schemaVars, last_call, sort_key >>

\* one step of the window and its workers
Next ==
    \/ \E p \in ParquetChoices : OpenFileParquet(p)
    \/ \E c \in TextChoices, h \in BOOLEAN : OpenFileText(c[1], c[2], h)
    \/ \E i \in 1..Len(load_recent_files(recent_files)) :
          OpenRecentFile(load_recent_files(recent_files)[i])
    \/ OnRefresh
    \/ LoadFileResume
    \/ \E k \in 1..Len(workers) : WorkerRun(k)
    \/ Deliver
    \/ OnShow
    \/ OnPagePrevious
    \/ OnPageNext
    \/ \E size \in 0..MaxPageSize : OnPageSizeChanged(size)
    \/ \E text \in SearchTerms : OnSearchChanged(text)
    \/ ClearData

Spec == Init /\ [][Next]_vars

----------------------------------------------------------------------------
(* The table view of one loaded file: the first load of the window, its    *)
(* paging and search, and clicks on the column headers, which              *)
(* setSortingEnabled(True) turns into sorts of the page proxy              *)

\* a click on header section `section` of _table_view: the view calls
\* sort(section, order) on its model, the page proxy
OnHeaderClicked(section) ==
    /\ main_pc = "idle"
    /\ section \in 0..(Len(model_df.columns) - 1)
    /\ sort_key' = flip_sort_indicator(sort_key, section)
    /\ UNCHANGED << winVars, loadVars, schemaVars, last_call >>

\* the window has not requested a load yet
FirstLoad == Len(workers) = 0

NextView ==
    \/ \E p \in ParquetChoices : FirstLoad /\ OpenFileParquet(p)
    \/ \E c \in TextChoices, h \in BOOLEAN :
          FirstLoad /\ OpenFileText(c[1], c[2], h)
    \/ \E k \in 1..Len(workers) : WorkerRun(k)
    \/ Deliver
    \/ OnShow
    \/ OnPagePrevious
    \/ OnPageNext
    \/ \E size \in 0..MaxPageSize : OnPageSizeChanged(size)
    \/ \E text \in SearchTerms : OnSearchChanged(text)
    \/ ClearData
    \/ \E section \in 0..(MaxCols - 1) : OnHeaderClicked(section)

SpecView == Init /\ [][NextView]_vars

----------------------------------------------------------------------------
(* The loader on its own: one DataLoaderWorker constructed with any        *)
(* arguments and started                                                   *)

InitWorker ==
    /\ model_df = EmptyDataFrame
    /\ search_text = <<>>
    /\ filter_string = <<>>
    /\ page = 0
    /\ spin_limit = 1
    /\ page_size = 1
    /\ has_header = TRUE
    /\ path_file = None
    /\ file_info = <<None, None>>
    /\ load_settings = EmptyDict
    /\ progress = "normal"
    /\ worker = 1
    /\ \E p \in Paths, t \in FileTypes, o \in WorkerOptions :
          workers = start_worker(<<>>, p, t, o)
    /\ queue = <<>>
    /\ main_pc = "idle"
    /\ pending = EmptyDict
    /\ recent_files = <<>>
    /\ InitSchemaOff
    /\ InitNoCall
    /\ InitSort

NextWorker == \E k \in 1..Len(workers) : WorkerRun(k)

SpecWorker == InitWorker /\ [][NextWorker]_vars

----------------------------------------------------------------------------
(* The schema utilities on their own: two frames, their serialized         *)
(* schemas, and the comparisons of the two                                 *)

\* the sequences of at most n distinct column names
RECURSIVE NameLists(_)
NameLists(n) ==
    IF n = 0 THEN { <<>> }
    ELSE LET shorter == NameLists(n - 1)
         IN  shorter \cup
             { Append(l, c) : l \in {m \in shorter : Len(m) = n - 1},
                              c \in ColumnNames }

Distinct(l) == \A i, j \in 1..Len(l) : i # j => l[i] # l[j]

\* the column lists of the frames: distinct names, any dtypes
Frames ==
    UNION { { [i \in 1..Len(l) |-> [name |-> l[i], dtype |-> d[i]]] :
                d \in [1..Len(l) -> DTypes] } :
            l \in {m \in NameLists(MaxCols) : Distinct(m)} }

Now == "2026-01-01 00:00:00"

InitSchema ==
    /\ InitWindow
    /\ spin_limit = 1
    /\ frames \in Frames \X Frames
    /\ jsons = <<>>
    /\ results = <<>>
    /\ schema_pc = "frames"
    /\ report = NoReport
    /\ InitNoCall
    /\ InitSort

\* get_schema_df and schema_to_json_dict on both frames, as
\* _extract_schema_to_json does for the frame on display
ExtractSchemas ==
    /\ schema_pc = "frames"
    /\ jsons' = << schema_to_json_dict(get_schema_df(frames[1]),
                                       "first", "parquet", Now),
                   schema_to_json_dict(get_schema_df(frames[2]),
                                       "second", "csv", Now) >>
    /\ schema_pc' = "extracted"
    /\ UNCHANGED << frames, results, report, winVars, loadVars, last_call, sort_key >>

\* compare_schemas on the two serialized schemas in both orders, and on
\* the first with itself
CompareSchemas ==
    /\ schema_pc = "extracted"
    /\ results' = [ ab |-> compare_schemas(jsons[1], jsons[2]),
                    ba |-> compare_schemas(jsons[2], jsons[1]),
                    aa |-> compare_schemas(jsons[1], jsons[1]) ]
    /\ schema_pc' = "compared"
    /\ UNCHANGED << frames, jsons, report, winVars, loadVars, last_call, sort_key >>

\* the keys a schema file may have lost before it is compared
DroppedKeys == { {}, {"schema"}, {"total_columns"} }

\* a schema file without some of its keys
without_keys(json, keys) == [k \in DOMAIN json \ keys |-> json[k]]

\* the dialog MainWindow._compare_json_schemas ends in for the two loaded
\* files: the f-strings read json1['total_columns'] in the "identical"
\* message and both counts in the "differ" message, and every exception
\* ends in the error dialog
compare_json_schemas(json1, json2) ==
    LET result == compare_schemas(json1, json2)
    IN  IF result.raised THEN "error"
        ELSE IF ~has_differences(result)
        THEN IF "total_columns" \in DOMAIN json1
             THEN "identical" ELSE "error"
        ELSE IF /\ "total_columns" \in DOMAIN json1
                /\ "total_columns" \in DOMAIN json2
             THEN "differ" ELSE "error"

\* MainWindow._compare_json_schemas on the two saved schemas, each
\* possibly without one of its keys
CompareJsonSchemas(drop1, drop2) ==
    LET json1 == without_keys(jsons[1], drop1)
        json2 == without_keys(jsons[2], drop2)
    IN  /\ schema_pc = "compared"
        /\ report' = [ json1 |-> json1, json2 |-> json2,
                       outcome |-> compare_json_schemas(json1, json2) ]
        /\ schema_pc' = "reported"
        /\ UNCHANGED << frames, jsons, results, winVars, loadVars, last_call, sort_key >>

NextSchema ==
    \/ ExtractSchemas
    \/ CompareSchemas
    \/ \E drop1 \in DroppedKeys, drop2 \in DroppedKeys :
          CompareJsonSchemas(drop1, drop2)

SpecSchema == InitSchema /\ [][NextSchema]_vars

----------------------------------------------------------------------------
(* The pagination proxy on its own: a PaginationProxyModel over a source   *)
(* of any length, its methods called with any integer arguments            *)

\* largest number of rows of the source under the pagination proxy
MaxRows == 9

\* integers passed to go_to_page and to set_page_size
PageArgs == (0 - 2)..(MaxRows + 1)

SizeArgs == (0 - 1)..(MaxPageSize + 1)

\* a frame of n rows and one column
PageFrame(n) ==
    [ gen     |-> 0,
      columns |-> << [name |-> <<"v">>, dtype |-> <<"o","b","j","e","c","t">>] >>,
      rows    |-> [i \in 1..n |-> << <<"r">> >>] ]

\* PaginationProxyModel.__init__ over a source that holds some rows; the
\* page size is the one the window's spin box gives
InitPage ==
    /\ \E n \in 0..MaxRows : model_df = PageFrame(n)
    /\ search_text = <<>>
    /\ filter_string = <<>>
    /\ page = 0
    /\ spin_limit \in 1..MaxPageSize
    /\ page_size = set_page_size(spin_limit).page_size
    /\ has_header = TRUE
    /\ path_file = None
    /\ file_info = <<None, None>>
    /\ load_settings = EmptyDict
    /\ progress = "normal"
    /\ worker = 0
    /\ workers = <<>>
    /\ queue = <<>>
    /\ main_pc = "idle"
    /\ pending = EmptyDict
    /\ recent_files = <<>>
    /\ InitSchemaOff
    /\ InitNoCall
    /\ InitSort

\* what a direct call leaves alone besides the proxy's own fields
outsideProxy == << model_df, search_text, filter_string, spin_limit, has_header,
                path_file, file_info, load_settings, progress, recent_files,
                loadVars, schemaVars, sort_key >>

\* proxy.set_page_size(size)
CallSetPageSize(size) ==
    LET new == set_page_size(size)
    IN  /\ page_size' = new.page_size
        /\ page' = new.page
        /\ last_call' = [op |-> "set_page_size", arg |-> size, ret |-> None]
        /\ UNCHANGED outsideProxy

\* proxy.go_to_page(pg)
CallGoToPage(pg) ==
    LET total == total_source_rows(model_df, filter_string)
    IN  /\ page' = go_to_page(pg, total, page_size)
        /\ last_call' = [op |-> "go_to_page", arg |-> pg, ret |-> None]
        /\ UNCHANGED << page_size, outsideProxy >>

\* proxy.first_page()
CallFirstPage ==
    LET total == total_source_rows(model_df, filter_string)
    IN  /\ page' = first_page(total, page_size)
        /\ last_call' = [op |-> "first_page", arg |-> 0, ret |-> None]
        /\ UNCHANGED << page_size, outsideProxy >>

\* proxy.next_page()
CallNextPage ==
    LET total == total_source_rows(model_df, filter_string)
        new == next_page(page, total, page_size)
    IN  /\ page' = new.page
        /\ last_call' = [op |-> "next_page", arg |-> 0, ret |-> new.moved]
        /\ UNCHANGED << page_size, outsideProxy >>

\* proxy.previous_page()
CallPreviousPage ==
    LET new == previous_page(page)
    IN  /\ page' = new.page
        /\ last_call' = [op |-> "previous_page", arg |-> 0, ret |-> new.moved]
        /\ UNCHANGED << page_size, outsideProxy >>

\* proxy.page_count
CallPageCount ==
    LET total == total_source_rows(model_df, filter_string)
    IN  /\ last_call' = [op |-> "page_count", arg |-> 0,
                         ret |-> page_count(total, page_size)]
        /\ UNCHANGED << page, page_size, outsideProxy >>

\* (proxy.showing_from, proxy.showing_to)
CallShowing ==
    LET total == total_source_rows(model_df, filter_string)
    IN  /\ last_call' = [op |-> "showing", arg |-> 0,
                         ret |-> << showing_from(total, page, page_size),
                                    showing_to(total, page, page_size) >>]
        /\ UNCHANGED << page, page_size, outsideProxy >>

NextPage ==
    \/ \E size \in SizeArgs : CallSetPageSize(size)
    \/ \E pg \in PageArgs : CallGoToPage(pg)
    \/ CallFirstPage
    \/ CallNextPage
    \/ CallPreviousPage
    \/ CallPageCount
    \/ CallShowing

SpecPage == InitPage /\ [][NextPage]_vars

----------------------------------------------------------------------------
(* The type mapping on its own: get_spark_type called with dtype names     *)

\* how dtype names begin and end: NumPy and pandas extension dtypes, and
\* names that are no dtype at all
TypeStems ==
    { <<>>, <<"i","n","t">>, <<"I","n","t">>, <<"u","i","n","t">>,
      <<"U","I","n","t">>, <<"f","l","o","a","t">>, <<"F","l","o","a","t">>,
      <<"d","a","t","e","t","i","m","e">>, <<"t","i","m","e","d","e","l","t","a">>,
      <<"b","o","o","l">>, <<"o","b","j","e","c","t">>, <<"s","t","r","i","n","g">>,
      <<"c","o","m","p","l","e","x">>, <<"c","a","t","e","g","o","r","y">>,
      <<"p","o","i","n","t">>, <<"d","o","u","b","l","e">> }

TypeSuffixes ==
    { <<>>, <<"8">>, <<"1","6">>, <<"3","2">>, <<"6","4">>, <<"1","2","8">>,
      <<"e","g","e","r">>, <<"e","a","n">>, <<"6","4","[","n","s","]">>,
      <<"6","4","[","n","s",","," ","U","T","C","]">> }

TypeNames == { stem \o suffix : stem \in TypeStems, suffix \in TypeSuffixes }

\* get_spark_type(dtype_str)
CallGetSparkType(dtype_str) ==
    /\ last_call' = [op |-> "get_spark_type", arg |-> dtype_str,
                     ret |-> get_spark_type(dtype_str)]
    /\ UNCHANGED << winVars, loadVars, schemaVars, sort_key >>

NextTypes == \E dtype_str \in TypeNames : CallGetSparkType(dtype_str)

SpecTypes == Init /\ [][NextTypes]_vars

----------------------------------------------------------------------------
(* The recent-files history on its own: add_recent_file called again and   *)
(* again on a history that starts empty                                    *)

\* the paths handed to add_recent_file: the next file on disk that the
\* history has not listed yet (the files are opened in the order of their
\* numbers), the two newest entries of the history again, and a path that
\* does not exist
RecentChoices ==
    LET Number(f) == IF \E i \in 1..Len(HistoryPaths) : HistoryPaths[i] = f
                     THEN CHOOSE i \in 1..Len(HistoryPaths) : HistoryPaths[i] = f
                     ELSE 0
        Above(i) == \A k \in 1..Len(recent_files) : Number(recent_files[k]) < i
        next == {i \in 1..Len(HistoryPaths) :
                    Above(i) /\ (i = 1 \/ ~Above(i - 1))}
    IN  {HistoryPaths[i] : i \in next}
        \cup {recent_files[i] : i \in {1, 2} \cap DOMAIN recent_files}
        \cup {"m.txt"}

\* config.add_recent_file(file_path)
CallAddRecentFile(file_path) ==
    /\ recent_files' = add_recent_file(recent_files, file_path)
    /\ last_call' = [op |-> "add_recent_file", arg |-> file_path, ret |-> None]
    /\ UNCHANGED << model_df, search_text, filter_string, page, page_size,
                    spin_limit, has_header, path_file, file_info,
                    load_settings, progress, loadVars, schemaVars, sort_key >>

NextRecent == \E file_path \in RecentChoices : CallAddRecentFile(file_path)

SpecRecent == Init /\ [][NextRecent]_vars

----------------------------------------------------------------------------
(* Properties of the loading protocol                                      *)

\* number of _load_file calls made so far
Requests == Len(workers) + (IF main_pc = "wait" THEN 1 ELSE 0)

\* the completion of load k has not reached its slot yet
Unhandled(k) ==
    \/ workers[k].running
    \/ \E i \in 1..Len(queue) : queue[i].worker = k

\* every load requested so far has been started, has completed and has had
\* its completion handled
AllHandled ==
    /\ main_pc = "idle"
    /\ \A k \in 1..Len(workers) : ~Unhandled(k)

\* C1: once a later load has been requested while load k is outstanding,
\* the frame built by load k never becomes the current snapshot.
C1_StaleResultNeverApplied ==
    [][\A k \in 1..Len(workers) :
          (Unhandled(k) /\ Requests > k) => model_df'.gen # k]_vars

\* C2: at the end of every handler the page is in range: with a filtered
\* total above 0 the current page is below the page count, and with a
\* filtered total of 0 the current page is 0 and no row is shown.
C2_PageInRange ==
    LET total == total_source_rows(model_df, filter_string)
    IN  /\ total > 0 => page < page_count(total, page_size)
        /\ total = 0 => /\ page = 0
                        /\ page_rows(model_df, filter_string, page, page_size) = <<>>

C2_Witness ==
    LET total == total_source_rows(model_df, filter_string)
    IN  /\ total > 0
        /\ page > 0
        /\ page = page_count(total, page_size) - 1
        /\ Len(filter_string) > 0

\* a step in which load k is requested, runs, or has its error handled
LoadRequested == Len(workers') + (IF main_pc' = "wait" THEN 1 ELSE 0) > Requests

WorkerFailed ==
    \E k \in 1..Len(workers) :
        /\ workers[k].running
        /\ ~workers'[k].running
        /\ workers'[k].emitted = <<"error">>

ErrorHandled ==
    /\ Len(queue) > 0
    /\ Head(queue).signal = "error"
    /\ queue' = Tail(queue)

\* C4: no step of a load that ends in an error (its request, the run of
\* its worker, the handling of its error) changes the current snapshot,
\* the search term, the current page or the page size.
C4_ErrorLeavesViewUntouched ==
    [][(LoadRequested \/ WorkerFailed \/ ErrorHandled) =>
          UNCHANGED << model_df, search_text, filter_string, page, page_size >>]_vars

\* an earlier snapshot, searched and paged, is still on display after the
\* error of a later load has been handled
C4_Witness ==
    \E k \in 1..Len(workers) :
        /\ workers[k].emitted = <<"error">>
        /\ ~Unhandled(k)
        /\ model_df.gen # 0
        /\ model_df.gen < k
        /\ Len(search_text) > 0
        /\ page > 0

\* C5: a load whose decoded table is empty is not reported as a success
\* and does not become the current snapshot.
C5_EmptyIsNotSuccess ==
    /\ \A i \in 1..Len(queue) :
          queue[i].signal = "finished" => ~df_empty(queue[i].payload)
    /\ model_df.gen # 0 => ~df_empty(model_df)

\* C6: a worker that is still running has emitted nothing, and a worker
\* that has run has emitted exactly one signal, finished or error, which
\* is queued once for the main thread.
C6_ExactlyOneNotification ==
    \A k \in 1..Len(workers) :
        LET mine == {i \in 1..Len(queue) : queue[i].worker = k}
        IN  IF workers[k].running
            THEN workers[k].emitted = <<>> /\ mine = {}
            ELSE /\ Len(workers[k].emitted) = 1
                 /\ workers[k].emitted[1] \in {"finished", "error"}
                 /\ Cardinality(mine) = 1
                 /\ \A i \in mine : queue[i].signal = workers[k].emitted[1]

C6_Witness ==
    \E k \in 1..Len(workers) :
        /\ ~workers[k].running
        /\ workers[k].file_type = "csv"
        /\ workers[k].emitted = <<"finished">>

\* C7: the step that handles the last outstanding completion leaves the
\* snapshot of the last-requested load current whenever that load
\* succeeded, whatever the earlier loads did.
C7_LastRequestedWins ==
    [][ ( /\ main_pc = "idle"
          /\ Len(queue) = 1
          /\ queue' = <<>>
          /\ \A k \in 1..Len(workers) : ~workers[k].running
          /\ workers[Len(workers)].emitted = <<"finished">> )
        => model_df'.gen = Len(workers) ]_vars

C7_Witness ==
    /\ Len(workers) >= 2
    /\ AllHandled
    /\ workers[1].emitted = <<"finished">>
    /\ workers[Len(workers)].emitted = <<"finished">>
    /\ model_df.gen = Len(workers)

----------------------------------------------------------------------------
(* Properties of the schema comparison                                     *)

\* the names of a serialized schema, in order
NamesOf(json) == [i \in 1..Len(json.schema) |-> json.schema[i][column_name]]

\* the names of `names` that also occur in `others`, in the order of `names`
CommonOf(names, others) ==
    LET InOthers(n) == \E i \in 1..Len(others) : others[i] = n
    IN  SelectSeq(names, InOthers)

\* 0-based position of n in seq
IndexOf(seq, n) == (CHOOSE i \in 1..Len(seq) : seq[i] = n) - 1

\* the names listed in a mismatch list
Listed(lines) == {lines[i].name : i \in 1..Len(lines)}

\* C3: a common name is listed in order_mismatches exactly when its
\* position among the common names of the first schema differs from its
\* position among the common names of the second.
C3_OrderByCommonPositions ==
    schema_pc = "compared" =>
        LET a == NamesOf(jsons[1])
            b == NamesOf(jsons[2])
            ca == CommonOf(a, b)
            cb == CommonOf(b, a)
        IN  /\ ~results.ab.raised
            /\ \A i \in 1..Len(ca) :
                  (ca[i] \in Listed(results.ab.order_mismatches))
                  <=> (IndexOf(ca, ca[i]) # IndexOf(cb, ca[i]))

\* C8: has_differences is the same in both argument orders, and
\* only_in_first of one order is only_in_second of the other.
C8_SwapSymmetry ==
    schema_pc = "compared" =>
        /\ ~results.ab.raised /\ ~results.ba.raised
        /\ has_differences(results.ab) = has_differences(results.ba)
        /\ results.ab.only_in_first = results.ba.only_in_second
        /\ results.ba.only_in_first = results.ab.only_in_second

\* the order lists of the two directions differ in length, and a name is
\* only in the second schema
C8_Witness ==
    /\ schema_pc = "compared"
    /\ Len(results.ab.only_in_second) > 0
    /\ Len(results.ab.order_mismatches) # Len(results.ba.order_mismatches)
    /\ has_differences(results.ba)

\* C9: swapping the arguments swaps the pairs of the mismatch lists: the
\* same names are listed, with positions (p, q) against (q, p) and types
\* (s, t) against (t, s).
C9_SwapSwapsPairs ==
    schema_pc = "compared" =>
        LET ab == results.ab
            ba == results.ba
        IN  /\ \A i \in 1..Len(ab.order_mismatches) :
                  \E j \in 1..Len(ba.order_mismatches) :
                      /\ ba.order_mismatches[j].name = ab.order_mismatches[i].name
                      /\ ba.order_mismatches[j].position1 = ab.order_mismatches[i].position2
                      /\ ba.order_mismatches[j].position2 = ab.order_mismatches[i].position1
            /\ \A j \in 1..Len(ba.order_mismatches) :
                  \E i \in 1..Len(ab.order_mismatches) :
                      /\ ab.order_mismatches[i].name = ba.order_mismatches[j].name
                      /\ ab.order_mismatches[i].position1 = ba.order_mismatches[j].position2
                      /\ ab.order_mismatches[i].position2 = ba.order_mismatches[j].position1
            /\ \A i \in 1..Len(ab.type_mismatches) :
                  \E j \in 1..Len(ba.type_mismatches) :
                      /\ ba.type_mismatches[j].name = ab.type_mismatches[i].name
                      /\ ba.type_mismatches[j].type1 = ab.type_mismatches[i].type2
                      /\ ba.type_mismatches[j].type2 = ab.type_mismatches[i].type1
            /\ \A j \in 1..Len(ba.type_mismatches) :
                  \E i \in 1..Len(ab.type_mismatches) :
                      /\ ab.type_mismatches[i].name = ba.type_mismatches[j].name
                      /\ ab.type_mismatches[i].type1 = ba.type_mismatches[j].type2
                      /\ ab.type_mismatches[i].type2 = ba.type_mismatches[j].type1

\* C10: the serialized schema of a frame compared with itself has no
\* differences: the comparison does not raise and its four lists are empty.
C10_RoundTripSelfCompare ==
    schema_pc = "compared" =>
        /\ ~results.aa.raised
        /\ ~has_differences(results.aa)
        /\ results.aa.only_in_first = <<>>
        /\ results.aa.only_in_second = <<>>
        /\ results.aa.type_mismatches = <<>>
        /\ results.aa.order_mismatches = <<>>

C10_Witness ==
    /\ schema_pc = "compared"
    /\ Len(frames[1]) >= 2
    /\ Len(jsons[1].schema) = Len(frames[1])
    /\ ~results.aa.raised

----------------------------------------------------------------------------
(* Properties of the header option, the control path and the page reset    *)

\* the file types read as delimited text
TextTypes == {"csv", "csv_gzip", "txt"}

\* load k was requested with header_present = false
RequestedWithoutHeader(k) ==
    dict_get(workers[k].options, "header", 0) = HeaderNone

\* the snapshot on display carries the names col1..colN
HasSynthesizedNames ==
    /\ Len(model_df.columns) > 0
    /\ [j \in 1..Len(model_df.columns) |-> model_df.columns[j].name]
          = [j \in 1..Len(model_df.columns) |->
                <<"c","o","l">> \o str_int(j)]

\* C11: the snapshot produced by a delimited-text load carries the names
\* col1..colN exactly when that load was requested without a header line,
\* whatever loads were requested before it
C11_SynthesizedNamesIffNoHeader ==
    (model_df.gen # 0 /\ workers[model_df.gen].file_type \in TextTypes)
        => (HasSynthesizedNames <=> RequestedWithoutHeader(model_df.gen))

\* C12: requesting a load never blocks the control path: no load request
\* is ever left waiting for a running load to finish
C12_RequestNeverBlocks == main_pc # "wait"

\* the filtered total of the window
FilteredTotal == total_source_rows(model_df, filter_string)

\* C13: a step that changes the filtered total, which only a change of the
\* search term or a replacement of the snapshot does, ends on page 0, and
\* the page it shows is not an empty one while rows are left
C13_TotalChangeResetsPage ==
    [][ \/ (filter_string' = filter_string /\ model_df' = model_df)
        \/ FilteredTotal' = FilteredTotal
        \/ /\ page' = 0
           /\ (FilteredTotal' > 0
                 => Len(page_rows(model_df', filter_string', page',
                                  page_size')) > 0) ]_vars

\* a search term narrowed a snapshot of several pages, and the first page of
\* the narrowed rows is on display
C13_Witness ==
    /\ Len(filter_string) > 0
    /\ FilteredTotal > 0
    /\ FilteredTotal < Len(model_df.rows)
    /\ page_count(Len(model_df.rows), page_size) > 1
    /\ page = 0
    /\ Len(page_rows(model_df, filter_string, page, page_size)) > 0

----------------------------------------------------------------------------
(* Properties of the pagination proxy                                      *)

\* C14: next_page() moves the page forward by exactly one and returns True
\* when the page is before the last one, and otherwise (last page, or no
\* page at all) returns False and leaves the page where it is;
\* previous_page() does the same backwards with the test page > 0; neither
\* changes the page size
C14_NextPreviousFrame ==
    [][ /\ last_call'.op = "next_page"
           => /\ page_size' = page_size
              /\ IF page < page_count(FilteredTotal, page_size) - 1
                 THEN page' = page + 1 /\ last_call'.ret = TRUE
                 ELSE page' = page /\ last_call'.ret = FALSE
        /\ last_call'.op = "previous_page"
           => /\ page_size' = page_size
              /\ IF page > 0
                 THEN page' = page - 1 /\ last_call'.ret = TRUE
                 ELSE page' = page /\ last_call'.ret = FALSE ]_vars

\* previous_page() was refused on the first page of a source of several
\* pages
C14_Witness ==
    /\ last_call.op = "previous_page"
    /\ last_call.ret = FALSE
    /\ page = 0
    /\ page_count(FilteredTotal, page_size) > 1

\* the least whole number of pages of `size` rows that hold `total` rows
CeilDiv(total, size) ==
    CHOOSE c \in 0..total : c * size >= total /\ (c - 1) * size < total

\* C15: go_to_page(p) leaves the page at p clamped into [0, page_count - 1]
\* for every integer p, negative and too large ones included, and at 0 when
\* there is no page
C15_GoToClamps ==
    last_call.op = "go_to_page"
        => LET pages == CeilDiv(FilteredTotal, page_size)
               p == last_call.arg
           IN  page = IF pages = 0 THEN 0
                      ELSE IF p < 0 THEN 0
                      ELSE IF p > pages - 1 THEN pages - 1
                      ELSE p

\* the example of 9 rows in pages of 3: go_to_page(5) ends on page 2
C15_Witness ==
    /\ last_call.op = "go_to_page"
    /\ last_call.arg = 5
    /\ FilteredTotal = 9
    /\ page_size = 3
    /\ page = 2

\* C16: the page size is at least 1 in every state, and set_page_size(n)
\* leaves it at max(1, n) for every integer n, with the page back at 0
C16_SetPageSizeFloors ==
    /\ page_size >= 1
    /\ last_call.op = "set_page_size"
          => /\ page_size = (IF last_call.arg >= 1 THEN last_call.arg ELSE 1)
             /\ page = 0

\* set_page_size was called with a number below 1
C16_Witness ==
    /\ last_call.op = "set_page_size"
    /\ last_call.arg < 1
    /\ page_size = 1
    /\ page = 0

\* C17: the visible range is (page * page_size + 1,
\* min((page + 1) * page_size, total)) over the filtered total, (0, 0)
\* when the total is 0, and otherwise 1 <= first <= last <= total
C17_VisibleRange ==
    LET total == FilteredTotal
        first == showing_from(total, page, page_size)
        last  == showing_to(total, page, page_size)
        full  == (page + 1) * page_size
    IN  IF total = 0
        THEN first = 0 /\ last = 0
        ELSE /\ first = page * page_size + 1
             /\ last = (IF full <= total THEN full ELSE total)
             /\ 1 <= first
             /\ first <= last
             /\ last <= total

\* the window shows a last page that is not full
C17_Witness ==
    /\ model_df.gen # 0
    /\ page > 0
    /\ showing_to(FilteredTotal, page, page_size) = FilteredTotal
    /\ FilteredTotal < (page + 1) * page_size
    /\ showing_from(FilteredTotal, page, page_size) = page * page_size + 1

\* C18: page_count is ceil(total / page_size) for a positive total and a
\* page size of at least 1, and 0 for a total of 0
C18_PageCountIsCeiling ==
    last_call.op = "page_count"
        => last_call.ret = (IF FilteredTotal = 0 THEN 0
                            ELSE CeilDiv(FilteredTotal, page_size))

\* page_count was read where the last page is not full
C18_Witness ==
    /\ last_call.op = "page_count"
    /\ FilteredTotal > page_size
    /\ FilteredTotal % page_size # 0
    /\ last_call.ret = (FilteredTotal \div page_size) + 1

----------------------------------------------------------------------------
(* Properties of the search filter and of the column lists of a comparison *)

\* two characters that are the same letter, whatever their case
SameLetter(a, b) ==
    \/ a = b
    \/ \E i \in 1..Len(UpperChars) : {a, b} = {UpperChars[i], LowerChars[i]}

\* some cell of the row holds the term at some offset, case ignored
RowMatches(row, term) ==
    \E j \in 1..Len(row) :
        \E k \in 0..(Len(row[j]) - Len(term)) :
            \A m \in 1..Len(term) : SameLetter(row[j][k + m], term[m])

\* C19: the rows the search proxy exposes are exactly the rows of the
\* snapshot with a cell whose rendering contains the term, case ignored:
\* every exposed row matches, every other row does not, the rows keep the
\* order of the snapshot, and the empty term exposes every row
C19_FilterExact ==
    LET rows == model_df.rows
        f == filtered_rows(model_df, filter_string)
    IN  /\ \A n \in 1..Len(f) :
              /\ f[n] \in 0..(Len(rows) - 1)
              /\ RowMatches(rows[f[n] + 1], filter_string)
        /\ \A i \in 0..(Len(rows) - 1) :
              (\A n \in 1..Len(f) : f[n] # i)
                  => ~RowMatches(rows[i + 1], filter_string)
        /\ \A n \in 1..(Len(f) - 1) : f[n] < f[n + 1]
        /\ Len(filter_string) = 0 => f = [i \in 1..Len(rows) |-> i - 1]

\* the term B keeps the rows "bob" and "AB" of a.parquet and drops "Ann"
C19_Witness ==
    /\ filter_string = <<"B">>
    /\ Len(model_df.rows) = 3
    /\ filtered_rows(model_df, filter_string) = <<1, 2>>

\* `listed` holds exactly the names of `from` that `other` lacks, in the
\* order of `from`
ExactlyMissing(listed, from, other) ==
    LET In(seq, n) == \E i \in 1..Len(seq) : seq[i] = n
    IN  /\ \A i \in 1..Len(listed) :
              In(from, listed[i]) /\ ~In(other, listed[i])
        /\ \A i \in 1..Len(from) :
              ~In(other, from[i]) => In(listed, from[i])
        /\ \A i, j \in 1..Len(listed) :
              i < j => IndexOf(from, listed[i]) < IndexOf(from, listed[j])

\* C20: only_in_first is exactly the column names of the first schema that
\* the second lacks, in the first schema's order, and only_in_second is
\* exactly the names of the second that the first lacks, in the second's
\* order
C20_OnlyInLists ==
    schema_pc = "compared"
        => LET a == NamesOf(jsons[1])
               b == NamesOf(jsons[2])
           IN  /\ ExactlyMissing(results.ab.only_in_first, a, b)
               /\ ExactlyMissing(results.ab.only_in_second, b, a)

\* the first schema has two columns the second lacks, the second has one
\* the first lacks
C20_Witness ==
    /\ schema_pc = "compared"
    /\ Len(results.ab.only_in_first) = 2
    /\ Len(results.ab.only_in_second) = 1
    /\ results.ab.only_in_first = NamesOf(jsons[1])

----------------------------------------------------------------------------
(* Properties of the type comparison, of malformed schemas and of the     *)
(* type mapping                                                            *)

\* C21: type_mismatches holds one entry, with the name, the first schema's
\* type and the second schema's type, for exactly the names present in
\* both schemas whose Spark types differ, in the first schema's order; a
\* name present in one schema only is never listed
C21_TypeMismatchesExact ==
    schema_pc = "compared"
        => LET a == jsons[1].schema
               b == jsons[2].schema
               tm == results.ab.type_mismatches
           IN  /\ \A i \in 1..Len(tm) :
                     \E ia \in 1..Len(a), ib \in 1..Len(b) :
                         /\ a[ia][column_name] = tm[i].name
                         /\ b[ib][column_name] = tm[i].name
                         /\ tm[i].type1 = a[ia][spark_type]
                         /\ tm[i].type2 = b[ib][spark_type]
                         /\ tm[i].type1 # tm[i].type2
               /\ \A ia \in 1..Len(a), ib \in 1..Len(b) :
                     (/\ a[ia][column_name] = b[ib][column_name]
                      /\ a[ia][spark_type] # b[ib][spark_type])
                         => Cardinality({i \in 1..Len(tm) :
                                tm[i].name = a[ia][column_name]}) = 1
               /\ \A i, j \in 1..Len(tm) :
                     i < j => IndexOf(NamesOf(jsons[1]), tm[i].name)
                                < IndexOf(NamesOf(jsons[1]), tm[j].name)

\* two columns differ in type, and the second schema lists them in the
\* other order
C21_Witness ==
    /\ schema_pc = "compared"
    /\ Len(results.ab.type_mismatches) = 2
    /\ results.ab.type_mismatches[2].name = NamesOf(jsons[2])[1]
    /\ results.ab.type_mismatches[1].name = NamesOf(jsons[1])[1]

\* a loaded schema file lacks the schema key or the total_columns key
Malformed(json) == ~({"schema", "total_columns"} \subseteq DOMAIN json)

\* C22: a comparison in which either file lacks the schema key or the
\* total_columns key ends in the error dialog, never in the "identical" or
\* the "schemas differ" report
C22_MalformedIsError ==
    (schema_pc = "reported" /\ (Malformed(report.json1) \/ Malformed(report.json2)))
        => report.outcome = "error"

\* the five Spark types
SparkTypes == {"integer", "double", "string", "boolean", "timestamp"}

\* two texts that are equal once case is ignored
SameText(a, b) ==
    Len(a) = Len(b) /\ \A i \in 1..Len(a) : SameLetter(a[i], b[i])

\* the text begins with the prefix, case ignored
BeginsWith(text, prefix) ==
    Len(prefix) <= Len(text) /\ SameText(SubSeq(text, 1, Len(prefix)), prefix)

\* C23: get_spark_type returns one of the five Spark types for every name:
\* the table entry of the lower-cased name if there is one, otherwise
\* integer for a name that starts with int or uint, double for float,
\* timestamp for datetime, and string for every other name
C23_ClassifyTotal ==
    last_call.op = "get_spark_type"
        => LET name == last_call.arg
               entries == {i \in 1..Len(SPARK_TYPE_MAP) :
                              SameText(name, SPARK_TYPE_MAP[i][1])}
           IN  /\ last_call.ret \in SparkTypes
               /\ \A i \in entries : last_call.ret = SPARK_TYPE_MAP[i][2]
               /\ entries = {}
                     => last_call.ret =
                          IF \/ BeginsWith(name, <<"i","n","t">>)
                             \/ BeginsWith(name, <<"u","i","n","t">>)
                          THEN "integer"
                          ELSE IF BeginsWith(name, <<"f","l","o","a","t">>)
                          THEN "double"
                          ELSE IF BeginsWith(name, <<"d","a","t","e","t","i","m","e">>)
                          THEN "timestamp"
                          ELSE "string"

\* a name in capitals that the table lacks and a prefix decides
C23_Witness ==
    /\ last_call.op = "get_spark_type"
    /\ last_call.arg = <<"U","I","n","t","1","2","8">>
    /\ last_call.ret = "integer"

----------------------------------------------------------------------------
(* Properties of malformed rows and of the serialized schema               *)

\* C24: a delimited-text load succeeds with every row of the wrong field
\* count left out of the frame it delivers (the count of the rows left out
\* is to be reported with it): the frame holds exactly the data lines that
\* have as many fields as the first line, in file order
C24_WrongCountRowsOmitted ==
    \A i \in 1..Len(queue) :
        (/\ queue[i].signal = "finished"
         /\ workers[queue[i].worker].file_type \in TextTypes)
            => LET w == workers[queue[i].worker]
                   lines == FileSystem[w.file_path].lines
                   data == IF dict_get(w.options, "header", 0) = HeaderNone
                           THEN lines ELSE Tail(lines)
                   WellFormed(line) == Len(line) = Len(lines[1])
               IN  queue[i].payload.rows = SelectSeq(data, WellFormed)

\* C25: the serialized schema of a frame has exactly one entry per column
\* of the frame, in the frame's column order, each with the keys
\* column_name, pandas_type and spark_type, where spark_type is the Spark
\* type of pandas_type, and total_columns is the number of entries
C25_SerializedSchemaShape ==
    schema_pc # "frames"
        => \A k \in 1..2 :
              LET cols == frames[k]
                  entries == jsons[k].schema
              IN  /\ Len(entries) = Len(cols)
                  /\ jsons[k].total_columns = Len(entries)
                  /\ \A i \in 1..Len(entries) :
                        /\ DOMAIN entries[i]
                              = {column_name, pandas_type, spark_type}
                        /\ entries[i][column_name] = cols[i].name
                        /\ entries[i][pandas_type] = cols[i].dtype
                        /\ entries[i][spark_type]
                              = get_spark_type(entries[i][pandas_type])

\* a frame of two columns, one of them of a pandas extension type, was
\* serialized
C25_Witness ==
    /\ schema_pc = "extracted"
    /\ Len(frames[1]) = 2
    /\ jsons[1].total_columns = 2
    /\ jsons[1].schema[2][pandas_type] = <<"I","n","t","3","2">>
    /\ jsons[1].schema[2][spark_type] = "integer"
    /\ jsons[1].schema[1][spark_type] = "string"

----------------------------------------------------------------------------
(* Properties of the table view                                            *)

\* C26: the rows the pagination proxy exposes are exactly the filtered
\* rows at the filtered positions p with page * page_size <= p <
\* (page + 1) * page_size, in filtered order; so at most page_size rows
\* are shown, and last - first + 1 rows of the visible range when rows
\* are left
C26_PageIsWindowOfFiltered ==
    LET f == filtered_rows(model_df, filter_string)
        shown == table_rows(model_df, filter_string, page, page_size, sort_key)
        Within(p) == page * page_size <= p - 1 /\ p - 1 < (page + 1) * page_size
        positions == SelectSeq([p \in 1..Len(f) |-> p], Within)
    IN  /\ shown = [n \in 1..Len(positions) |-> f[positions[n]]]
        /\ Len(shown) <= page_size
        /\ Len(f) > 0
              => Len(shown) = showing_to(Len(f), page, page_size)
                               - showing_from(Len(f), page, page_size) + 1

----------------------------------------------------------------------------
(* Properties of the source identity, of clear and of the progress bar     *)

\* C27: while a non-empty snapshot is on display, _path_file, _file_name
\* and _file_ext name the file that snapshot was loaded from, also while a
\* later load is in flight and after a later load has failed
C27_IdentityNamesSnapshotSource ==
    (model_df.gen # 0 /\ ~df_empty(model_df))
        => /\ path_file = workers[model_df.gen].file_path
           /\ file_info = parse_file_info(workers[model_df.gen].file_path)

\* Close and Clean was invoked after the last load request: only
\* _clear_data empties _current_load_settings, and every request fills it
ClearedSinceLastRequest == Requests > 0 /\ DOMAIN load_settings = {}

\* C28: after an explicit clear the snapshot stays empty and the source
\* identity stays unset as long as no load has been requested since; the
\* result of a load that was in flight at the clear is never shown
C28_ClearedStaysEmpty ==
    ClearedSinceLastRequest
        => /\ model_df = EmptyDataFrame
           /\ path_file = None
           /\ file_info = <<None, None>>

\* C29: the progress bar is in busy mode only while a load is in flight:
\* once every requested load has completed and has had its completion
\* handled, whatever its outcome and row count, the bar is out of busy mode
C29_BusyOnlyWhileLoading ==
    AllHandled => progress = "normal"

----------------------------------------------------------------------------
(* Properties of the recent-files history                                  *)

\* C30: after every add_recent_file on a history that started empty, the
\* stored list has at most MAX_RECENT_FILES entries and no path twice, its
\* first entry is the path just added, and the entries after it are
\* entries of the list before the call in the order they had there, which
\* is most recently added first
C30_RecentFilesMostRecentFirst ==
    [][ last_call'.op = "add_recent_file"
          => /\ Len(recent_files') <= MAX_RECENT_FILES
             /\ \A i, j \in 1..Len(recent_files') :
                   i # j => recent_files'[i] # recent_files'[j]
             /\ Len(recent_files') >= 1
             /\ recent_files'[1] = last_call'.arg
             /\ \A i \in 2..Len(recent_files') :
                   \E k \in 1..Len(recent_files) :
                       recent_files[k] = recent_files'[i]
             /\ \A i, j \in 2..Len(recent_files') :
                   i < j => IndexOf(recent_files, recent_files'[i])
                              < IndexOf(recent_files, recent_files'[j]) ]_vars

\* eleven files were added one after the other: the history is full, and
\* the first one added has dropped out of it
C30_Witness ==
    /\ last_call.op = "add_recent_file"
    /\ recent_files = << "f11", "f10", "f09", "f08", "f07",
                         "f06", "f05", "f04", "f03", "f02" >>

=============================================================================
